---------------------------- MODULE Spec2Model ----------------------------
(***************************************************************************)
(* Model of the rag-quiz ingestion pipeline:                               *)
(*   pipeline/p1_ingest.py   clean_text, fix_double_newlines,              *)
(*                           extract_sections_grouped                     *)
(*   pipeline/p2_chunker.py  chunk_text, df_to_chunks_list                 *)
(*   pipeline/p4_retriever.py build_context_from_results                   *)
(* A Python str is a sequence of one-character strings.  Offsets are the   *)
(* 0-based offsets of the Python code; a sequence index is offset + 1.     *)
(***************************************************************************)
EXTENDS Integers, Sequences, FiniteSets, TLC

VARIABLES
    \* ---- p2_chunker.py: df_to_chunks_list / chunk_text
    df,          \* the DataFrame: a sequence of rows
    chunk_size,  \* parameter chunk_size
    overlap,     \* parameter overlap
    row,         \* 1-based position of the row df.iterrows() is at
    text,        \* chunk_text's argument for the row being split
    start,       \* chunk_text local
    idx,         \* chunk_text local
    chunks,      \* chunk_text local: the list being built
    outcome,     \* how the running call of chunk_text ended
    out,         \* df_to_chunks_list local: the records
    cpc,         \* control point of the chunker
    \* ---- p1_ingest.py: clean_text applied twice
    raw,         \* a raw text
    once,        \* clean_text(raw)
    twice,       \* clean_text(clean_text(raw))
    npc,         \* control point of the two applications
    \* ---- p1_ingest.py: extract_sections_grouped
    pdf_found,   \* does the file at pdf_path exist
    raw_pages,   \* p.get_text("text") of every page of the PDF
    pages,       \* local pages: the cleaned page texts
    pg,          \* the page number i of the detection loop
    page_docs,   \* local page_docs: <<page, name>> pairs
    span,        \* position of the zip(page_docs, page_docs[1:]) loop
    rows,        \* local rows; each row also keeps the span it came from
                 \* and the locals m.start(), start_pos, end_pos of its iteration
    frame,       \* the returned DataFrame
    ipc,         \* control point of extract_sections_grouped
    \* ---- p4_retriever.py: build_context_from_results
    results,      \* parameter results: a sequence of result dictionaries
    char_limit,   \* parameter char_limit
    include_meta, \* parameter include_meta
    ri,           \* 1-based position of the loop over results
    seen,         \* local seen
    parts,        \* local parts
    total,        \* local total
    context_text, \* the returned string
    xpc           \* control point of build_context_from_results

cvars == <<df, chunk_size, overlap, row, text, start, idx, chunks, outcome, out, cpc>>
nvars == <<raw, once, twice, npc>>
ivars == <<pdf_found, raw_pages, pages, pg, page_docs, span, rows, frame, ipc>>

xvars == <<results, char_limit, include_meta, ri, seen, parts, total, context_text, xpc>>

vars == <<cvars, nvars, ivars, xvars>>

(***************************************************************************)
(* Python str primitives                                                   *)
(***************************************************************************)
MinOf(a, b) == IF a <= b THEN a ELSE b
MaxOf(a, b) == IF a >= b THEN a ELSE b

Rep(c, n) == [i \in 1..n |-> c]

\* str.isspace(), and the regex class \s, on the characters of the model's alphabet
IsSpace(c) == c \in {" ", "\n", "\t", "\r", "<nbsp>"}

\* offset (0-based) of the first / one past the last non-blank character
FirstNonSpace(s) ==
    IF \A i \in 1..Len(s) : IsSpace(s[i]) THEN Len(s)
    ELSE (CHOOSE i \in 1..Len(s) :
            /\ ~IsSpace(s[i])
            /\ \A j \in 1..(i - 1) : IsSpace(s[j])) - 1

LastNonSpaceEnd(s) ==
    IF \A i \in 1..Len(s) : IsSpace(s[i]) THEN 0
    ELSE CHOOSE i \in 1..Len(s) :
            /\ ~IsSpace(s[i])
            /\ \A j \in (i + 1)..Len(s) : IsSpace(s[j])

\* s[a:b] with Python's treatment of negative and out-of-range bounds
PyIndex(i, n) == IF i < 0 THEN MaxOf(n + i, 0) ELSE MinOf(i, n)
PySlice(s, a, b) ==
    LET lo == PyIndex(a, Len(s))
        hi == PyIndex(b, Len(s))
    IN  IF lo < hi THEN SubSeq(s, lo + 1, hi) ELSE <<>>

\* str.lstrip(), str.strip()
LStrip(s) == SubSeq(s, FirstNonSpace(s) + 1, Len(s))
Strip(s) == SubSeq(s, FirstNonSpace(s) + 1, LastNonSpaceEnd(s))

(***************************************************************************)
(* Characters.  ASCII characters stand for themselves; the others are      *)
(* named: "<nbsp>" U+00A0, "<zwsp>" U+200B, "<endash>" U+2013, "<bullet>"  *)
(* U+2022, "<acute>" U+0301 (combining), "<e'>" U+00E9, "<E'>" U+00C9,     *)
(* "<a~>" U+00E3, "<A~>" U+00C3.                                           *)
(***************************************************************************)
LowerCase == <<"a", "b", "c", "d", "e", "f", "g", "h", "i", "j", "k", "l", "m", "n", "o", "p", "q", "r", "s", "t", "u", "v", "w", "x", "y", "z", "<e'>", "<a~>">>
UpperCase == <<"A", "B", "C", "D", "E", "F", "G", "H", "I", "J", "K", "L", "M", "N", "O", "P", "Q", "R", "S", "T", "U", "V", "W", "X", "Y", "Z", "<E'>", "<A~>">>

IsDigit(c) == c \in {"0", "1", "2", "3", "4", "5", "6", "7", "8", "9"}

\* the class [a-zá-úÀ-Ú] under re.IGNORECASE
Letters == {LowerCase[i] : i \in 1..Len(LowerCase)} \cup {UpperCase[i] : i \in 1..Len(UpperCase)}
IsLetter(c) == c \in Letters

\* str.upper()
UpperOf == [c \in {LowerCase[i] : i \in 1..Len(LowerCase)} |->
              UpperCase[CHOOSE i \in 1..Len(LowerCase) : LowerCase[i] = c]]
UpperChar(c) == IF c \in DOMAIN UpperOf THEN UpperOf[c] ELSE c
Upper(s) == [i \in 1..Len(s) |-> UpperChar(s[i])]

\* offset of the first character at or after offset p that is not
\* whitespace (regex \s*) / not a digit (regex \d*); Len(s) when none
SkipSpaces(s, p) ==
    IF \A i \in (p + 1)..Len(s) : IsSpace(s[i]) THEN MaxOf(p, Len(s))
    ELSE (CHOOSE i \in (p + 1)..Len(s) :
            /\ ~IsSpace(s[i])
            /\ \A j \in (p + 1)..(i - 1) : IsSpace(s[j])) - 1

SkipDigits(s, p) ==
    IF \A i \in (p + 1)..Len(s) : IsDigit(s[i]) THEN MaxOf(p, Len(s))
    ELSE (CHOOSE i \in (p + 1)..Len(s) :
            /\ ~IsDigit(s[i])
            /\ \A j \in (p + 1)..(i - 1) : IsDigit(s[j])) - 1

\* the characters of a marked sequence that are kept
Kept(m) ==
    LET sel == SelectSeq(m, LAMBDA x : x.keep)
    IN  [i \in 1..Len(sel) |-> sel[i].c]

\* re.sub of a character class by one character
ReplaceChars(s, class, r) == [i \in 1..Len(s) |-> IF s[i] \in class THEN r ELSE s[i]]

\* re.sub(r'[ \t]+', ' ', s)
CollapseBlanks(s) ==
    Kept([i \in 1..Len(s) |->
            [keep |-> ~(s[i] \in {" ", "\t"} /\ i > 1 /\ s[i - 1] \in {" ", "\t"}),
             c |-> IF s[i] = "\t" THEN " " ELSE s[i]]])

\* is the space at index i in a run of spaces that touches a line break
SpaceBeforeBreak(s, i) ==
    \E k \in (i + 1)..Len(s) : s[k] = "\n" /\ \A j \in i..(k - 1) : s[j] = " "
SpaceAfterBreak(s, i) ==
    \E k \in 1..(i - 1) : s[k] = "\n" /\ \A j \in (k + 1)..i : s[j] = " "

\* unicodedata.normalize('NFC', s) on the model's alphabet: the combining
\* acute accent composes with a preceding e / E
Composed(c) == IF c = "e" THEN "<e'>" ELSE "<E'>"
NFC(s) ==
    Kept([i \in 1..Len(s) |->
            [keep |-> ~(s[i] = "<acute>" /\ i > 1 /\ s[i - 1] \in {"e", "E"}),
             c |-> IF s[i] \in {"e", "E"} /\ i < Len(s) /\ s[i + 1] = "<acute>"
                   THEN Composed(s[i]) ELSE s[i]]])

(***************************************************************************)
(* p1_ingest.py: clean_text                                                *)
(***************************************************************************)
\* line 58
StripInvisible(s) == ReplaceChars(s, {"<zwsp>", "<nbsp>"}, " ")

\* lines 61-64: the two quote classes of the source hold the straight
\* quote and apostrophe only, which they replace by themselves
NormalizePunctuation(s) ==
    LET q == ReplaceChars(s, {"\""}, "\"")
        a == ReplaceChars(q, {"'"}, "'")
        d == ReplaceChars(a, {"<endash>", "<emdash>"}, "-")
    IN  ReplaceChars(d, {"<bullet>"}, "-")

\* the lookahead \s*\d+\. at offset p
NumberedLineAhead(s, p) ==
    LET q == SkipSpaces(s, p)
        r == SkipDigits(s, q)
    IN  r > q /\ r < Len(s) /\ s[r + 1] = "."

\* line 67: (?<![.:;?!])\n(?!\s*\d+\.) -> ' '
JoinMidSentenceBreaks(s) ==
    [i \in 1..Len(s) |->
        IF /\ s[i] = "\n"
           /\ ~(i > 1 /\ s[i - 1] \in {".", ":", ";", "?", "!"})
           /\ ~NumberedLineAhead(s, i)
        THEN " " ELSE s[i]]

\* line 70: ([letter])\n{2,}([letter]) -> '\1 \2', leftmost matches first
\* index one past the run of line breaks that starts at index i
BreakRunEnd(s, i) ==
    IF \A k \in i..Len(s) : s[k] = "\n" THEN Len(s) + 1
    ELSE CHOOSE k \in i..Len(s) : s[k] # "\n" /\ \A j \in i..(k - 1) : s[j] = "\n"

WordBreakAt(s, i) ==
    /\ IsLetter(s[i])
    /\ BreakRunEnd(s, i + 1) >= i + 3
    /\ BreakRunEnd(s, i + 1) <= Len(s)
    /\ IsLetter(s[BreakRunEnd(s, i + 1)])

RECURSIVE JoinWordBreaksFrom(_, _)
JoinWordBreaksFrom(s, from) ==
    IF \A i \in from..Len(s) : ~WordBreakAt(s, i) THEN SubSeq(s, from, Len(s))
    ELSE LET i == CHOOSE k \in from..Len(s) :
                    WordBreakAt(s, k) /\ \A j \in from..(k - 1) : ~WordBreakAt(s, j)
             e == BreakRunEnd(s, i + 1)
         IN  SubSeq(s, from, i) \o <<" ", s[e]>> \o JoinWordBreaksFrom(s, e + 1)
JoinWordBreaks(s) == JoinWordBreaksFrom(s, 1)

\* line 76: \n{3,} -> '\n\n'
CollapseBreaks(s) ==
    Kept([i \in 1..Len(s) |->
            [keep |-> ~(i > 2 /\ s[i] = "\n" /\ s[i - 1] = "\n" /\ s[i - 2] = "\n"),
             c |-> s[i]]])

\* line 79: ' *\n *' -> '\n'
TrimAroundBreaks(s) ==
    Kept([i \in 1..Len(s) |->
            [keep |-> ~(s[i] = " " /\ (SpaceBeforeBreak(s, i) \/ SpaceAfterBreak(s, i))),
             c |-> s[i]]])

\* lines 40-88.  The except branch is not modelled: no step raises on a str
clean_text(t) ==
    IF t = <<>> THEN <<>>
    ELSE Strip(NFC(TrimAroundBreaks(CollapseBreaks(CollapseBlanks(JoinWordBreaks(
            JoinMidSentenceBreaks(NormalizePunctuation(StripInvisible(t)))))))))

(***************************************************************************)
(* p1_ingest.py: fix_double_newlines                                       *)
(***************************************************************************)
IsLineSep(c) == c \in {"\n", "\r"}

\* line 106-111: ([letter])[\n\r]+\s*[\n\r]+([letter]) -> '\1 \2'
ParagraphBreakAt(s, i) ==
    LET e == SkipSpaces(s, i)
    IN  /\ IsLetter(s[i])
        /\ e >= i + 2
        /\ e < Len(s)
        /\ IsLineSep(s[i + 1])
        /\ IsLineSep(s[e])
        /\ IsLetter(s[e + 1])

RECURSIVE JoinParagraphBreaksFrom(_, _)
JoinParagraphBreaksFrom(s, from) ==
    IF \A i \in from..Len(s) : ~ParagraphBreakAt(s, i) THEN SubSeq(s, from, Len(s))
    ELSE LET i == CHOOSE k \in from..Len(s) :
                    ParagraphBreakAt(s, k) /\ \A j \in from..(k - 1) : ~ParagraphBreakAt(s, j)
             e == SkipSpaces(s, i)
         IN  SubSeq(s, from, i) \o <<" ", s[e + 1]>> \o JoinParagraphBreaksFrom(s, e + 2)
JoinParagraphBreaks(s) == JoinParagraphBreaksFrom(s, 1)

\* line 116: ' *\n+ *' -> '\n'
SingleBreaks(s) ==
    Kept([i \in 1..Len(s) |->
            [keep |-> /\ ~(s[i] = " " /\ (SpaceBeforeBreak(s, i) \/ SpaceAfterBreak(s, i)))
                      /\ ~(s[i] = "\n" /\ i > 1 /\ s[i - 1] = "\n"),
             c |-> s[i]]])

\* lines 91-123
fix_double_newlines(t) == Strip(NFC(SingleBreaks(CollapseBlanks(JoinParagraphBreaks(t)))))

(***************************************************************************)
(* p2_chunker.py                                                           *)
(***************************************************************************)
DEFAULT_CHUNK_SIZE == 900
DEFAULT_OVERLAP == 200
MIN_CHUNK_LENGTH == 50

(***************************************************************************)
(* The values of a component's variables while another component runs      *)
(***************************************************************************)
ChunkIdle ==
    /\ df = <<>> /\ chunk_size = DEFAULT_CHUNK_SIZE /\ overlap = DEFAULT_OVERLAP
    /\ row = 1 /\ text = <<>> /\ start = 0 /\ idx = 0 /\ chunks = <<>>
    /\ outcome = "none" /\ out = <<>> /\ cpc = "idle"

CleanIdle == raw = <<>> /\ once = <<>> /\ twice = <<>> /\ npc = "idle"

IngestIdle ==
    /\ pdf_found = TRUE /\ raw_pages = <<>> /\ pages = <<>> /\ pg = 1
    /\ page_docs = <<>> /\ span = 1 /\ rows = <<>> /\ frame = <<>> /\ ipc = "idle"

ContextIdle ==
    /\ results = <<>> /\ char_limit = 0 /\ include_meta = TRUE /\ ri = 1
    /\ seen = {} /\ parts = <<>> /\ total = 0 /\ context_text = <<>> /\ xpc = "idle"


\* Bounds of the chunker's inputs
MaxRuns == 3         \* a content is at most this many runs of one character
MaxLoopChunks == 3   \* cap on the chunks a window that never advances emits
MaxBack == 20        \* cap on how far below 0 a window that moves back goes

Runs == {Rep("x", 60), Rep("x", 30), Rep(" ", 30)}

RECURSIVE RunSeqs(_)
RunSeqs(n) ==
    IF n = 0 THEN {<<>>}
    ELSE LET shorter == RunSeqs(n - 1)
         IN  shorter \cup {s \o r : s \in shorter, r \in Runs}

Contents == RunSeqs(MaxRuns) \cup {Rep("x", 1000)}

\* (chunk_size, overlap) pairs: the defaults, advancing windows with and
\* without overlap, a negative overlap, and overlap >= chunk_size
Sizings ==
    { <<DEFAULT_CHUNK_SIZE, DEFAULT_OVERLAP>>, <<100, 20>>, <<60, 0>>,
      <<50, 10>>,
      <<70, 0 - 20>>, <<60, 60>>, <<55, 60>>, <<200, 200>> }

MkRow(doc, num, title, content) ==
    [doc_name |-> doc, section_number |-> num, section_title |-> title,
     page_start |-> 1, page_end |-> 1, content |-> content]

\* One-row frames over every content, and two-row frames over a few
Frames ==
    {<<MkRow("Regulamento Ponto Ton", "1", t, c)>> :
        t \in {"", "Objetivo"}, c \in Contents}
    \cup
    {<<MkRow("", "", "", c1), MkRow("Regulamento Renda Ton", "2", "Regras", c2)>> :
        c1 \in {<<>>, Rep("x", 60)}, c2 \in {Rep("x", 60) \o Rep("x", 60), Rep(" ", 30)}}

ChunkInit ==
    /\ df \in Frames
    /\ \E sz \in Sizings : chunk_size = sz[1] /\ overlap = sz[2]
    /\ row = 1
    /\ text = <<>>
    /\ start = 0
    /\ idx = 0
    /\ chunks = <<>>
    /\ outcome = "none"
    /\ out = <<>>
    /\ cpc = "iterrows"
    /\ CleanIdle
    /\ IngestIdle
    /\ ContextIdle

\* df_to_chunks_list, lines 88-91: next row, call chunk_text on its content
DfNextRow ==
    /\ cpc = "iterrows"
    /\ row <= Len(df)
    /\ text' = df[row].content
    /\ start' = 0
    /\ idx' = 0
    /\ chunks' = <<>>
    /\ outcome' = "running"
    /\ cpc' = "guard"
    /\ UNCHANGED <<df, chunk_size, overlap, row, out>>
    /\ UNCHANGED <<nvars, ivars, xvars>>

\* chunk_text, lines 42-51: the empty-text early return
ChunkGuard ==
    /\ cpc = "guard"
    /\ IF text = <<>>
       THEN /\ outcome' = "returned"
            /\ cpc' = "collect"
       ELSE /\ outcome' = outcome
            /\ cpc' = "loop"
    /\ UNCHANGED <<df, chunk_size, overlap, row, text, start, idx, chunks, out>>
    /\ UNCHANGED <<nvars, ivars, xvars>>

\* chunk_text, lines 53-65: one evaluation of the while condition and, when
\* it holds, one iteration of the body
\* Faulty variant: the window end without the clamp to the content length
WindowEnd_NoClamp == start + chunk_size
WindowEnd == MinOf(start + chunk_size, Len(text))
WindowText == Strip(PySlice(text, start, WindowEnd))
\* Faulty variant: the minimum length tested on the untrimmed window
WindowEmitted_Untrimmed == Len(PySlice(text, start, WindowEnd)) >= MIN_CHUNK_LENGTH
WindowEmitted == Len(WindowText) >= MIN_CHUNK_LENGTH

\* Faulty variant: idx advances on every window, skipped ones included
ChunkLoop_IndexCountsSkipped ==
    /\ cpc = "loop"
    /\ \/ overlap < chunk_size
       \/ Len(chunks) < MaxLoopChunks /\ start > 0 - MaxBack
    /\ IF start < Len(text)
       THEN /\ chunks' = IF WindowEmitted
                         THEN Append(chunks, [index |-> idx, char_start |-> start,
                                              char_end |-> WindowEnd, text |-> WindowText])
                         ELSE chunks
            /\ idx' = idx + 1
            /\ IF WindowEnd = Len(text)
               THEN /\ start' = start
                    /\ outcome' = "returned"
                    /\ cpc' = "collect"
               ELSE /\ start' = WindowEnd - overlap
                    /\ outcome' = outcome
                    /\ cpc' = "loop"
       ELSE /\ outcome' = "returned"
            /\ cpc' = "collect"
            /\ UNCHANGED <<start, idx, chunks>>
    /\ UNCHANGED <<df, chunk_size, overlap, row, text, out>>
    /\ UNCHANGED <<nvars, ivars, xvars>>

\* Faulty variant: the next window starts where this one ends, the overlap
\* is not taken back
ChunkLoop_StepIgnoresOverlap ==
    /\ cpc = "loop"
    /\ \/ overlap < chunk_size
       \/ Len(chunks) < MaxLoopChunks /\ start > 0 - MaxBack
    /\ IF start < Len(text)
       THEN /\ chunks' = IF WindowEmitted
                         THEN Append(chunks, [index |-> idx, char_start |-> start,
                                              char_end |-> WindowEnd, text |-> WindowText])
                         ELSE chunks
            /\ idx' = IF WindowEmitted THEN idx + 1 ELSE idx
            /\ IF WindowEnd = Len(text)
               THEN /\ start' = start
                    /\ outcome' = "returned"
                    /\ cpc' = "collect"
               ELSE /\ start' = WindowEnd
                    /\ outcome' = outcome
                    /\ cpc' = "loop"
       ELSE /\ outcome' = "returned"
            /\ cpc' = "collect"
            /\ UNCHANGED <<start, idx, chunks>>
    /\ UNCHANGED <<df, chunk_size, overlap, row, text, out>>
    /\ UNCHANGED <<nvars, ivars, xvars>>

ChunkLoop ==
    /\ cpc = "loop"
    /\ \/ overlap < chunk_size
       \/ Len(chunks) < MaxLoopChunks /\ start > 0 - MaxBack
    /\ IF start < Len(text)
       THEN /\ chunks' = IF WindowEmitted
                         THEN Append(chunks, [index |-> idx, char_start |-> start,
                                              char_end |-> WindowEnd, text |-> WindowText])
                         ELSE chunks
            /\ idx' = IF WindowEmitted THEN idx + 1 ELSE idx
            /\ IF WindowEnd = Len(text)
               THEN /\ start' = start
                    /\ outcome' = "returned"
                    /\ cpc' = "collect"
               ELSE /\ start' = WindowEnd - overlap
                    /\ outcome' = outcome
                    /\ cpc' = "loop"
       ELSE /\ outcome' = "returned"
            /\ cpc' = "collect"
            /\ UNCHANGED <<start, idx, chunks>>
    /\ UNCHANGED <<df, chunk_size, overlap, row, text, out>>
    /\ UNCHANGED <<nvars, ivars, xvars>>

\* df_to_chunks_list, lines 89-102: one record per returned chunk
RowTitle(r) ==
    IF r.section_title # "" THEN r.section_title
    ELSE IF r.doc_name # "" THEN r.doc_name ELSE ""

MkRecord(r, n, c) ==
    [id |-> n, doc_name |-> r.doc_name, section_number |-> r.section_number,
     section_title |-> RowTitle(r),
     page_range |-> <<r.page_start, "-", r.page_end>>,
     chunk_index |-> c.index, char_start |-> c.char_start,
     char_end |-> c.char_end, text |-> c.text]

DfCollect ==
    /\ cpc = "collect"
    /\ out' = out \o [i \in 1..Len(chunks) |-> MkRecord(df[row], Len(out) + i, chunks[i])]
    /\ row' = row + 1
    /\ cpc' = "iterrows"
    /\ UNCHANGED <<df, chunk_size, overlap, text, start, idx, chunks, outcome>>
    /\ UNCHANGED <<nvars, ivars, xvars>>

\* df_to_chunks_list, line 103
DfReturn ==
    /\ cpc = "iterrows"
    /\ row > Len(df)
    /\ cpc' = "done"
    /\ UNCHANGED <<df, chunk_size, overlap, row, text, start, idx, chunks, outcome, out>>
    /\ UNCHANGED <<nvars, ivars, xvars>>

ChunkNext == DfNextRow \/ ChunkGuard \/ ChunkLoop \/ DfCollect \/ DfReturn

SpecChunk == ChunkInit /\ [][ChunkNext]_vars

\* The interpreter keeps running the call: a step that can be taken is taken
SpecChunkFair == ChunkInit /\ [][ChunkNext]_vars /\ WF_vars(ChunkNext)

(***************************************************************************)
(* Properties of the chunk splitter                                        *)
(***************************************************************************)
ChunkPre == chunk_size > 0 /\ 0 <= overlap /\ overlap < chunk_size
Called == cpc \in {"loop", "collect"}
Returned == cpc = "collect"
LastChunk == chunks[Len(chunks)]

\* the k-th window of the splitter's contract, k = 0, 1, ...
WinStart(k) == k * (chunk_size - overlap)
WinEnd(k) == MinOf(WinStart(k) + chunk_size, Len(text))
WinText(k) == Strip(SubSeq(text, WinStart(k) + 1, WinEnd(k)))
\* the first window whose end is the content length
FinalWin ==
    CHOOSE k \in 0..Len(text) :
        /\ WinEnd(k) = Len(text)
        /\ \A j \in 0..(k - 1) : WinEnd(j) < Len(text)
KeptWins == {k \in 0..FinalWin : Len(WinText(k)) >= MIN_CHUNK_LENGTH}

\* C5 (as stated): whenever chunk_text emits a chunk, the last emitted
\* chunk's char_end equals the length of the content.
C5_LastEndIsLength ==
    (Returned /\ ChunkPre /\ chunks # <<>>) => LastChunk.char_end = Len(text)

\* C5 (amended): the last emitted chunk's char_end equals the length of the
\* content exactly when the final window (the one that ends at the content
\* length) is emitted; when that window is skipped for being shorter than
\* the minimum, the last emitted chunk ends before the content length.
C5_LastEndIsLengthIfFinalKept ==
    (Returned /\ ChunkPre /\ chunks # <<>>) =>
        IF FinalWin \in KeptWins
        THEN LastChunk.char_end = Len(text)
        ELSE LastChunk.char_end < Len(text)

C5_Witness ==
    /\ Returned /\ ChunkPre /\ Len(chunks) >= 2
    /\ FinalWin \in KeptWins
    /\ LastChunk.char_end = Len(text)
    /\ LastChunk.char_start > 0

\* C6: for content of length >= 1 the splitter considers exactly the windows
\* [k*(chunk_size-overlap), min(k*(chunk_size-overlap)+chunk_size, L)) up to
\* the first one that ends at L, emits exactly those whose trimmed text has
\* at least 50 characters, each with its untrimmed bounds and trimmed text;
\* 1000 non-blank characters at 900/200 give the chunks [0,900), [700,1000).
C6_WindowsAndEmission ==
    (Called /\ ChunkPre /\ Len(text) >= 1) =>
        /\ cpc = "loop" => \E k \in 0..FinalWin : start = WinStart(k)
        /\ Returned =>
            /\ Len(chunks) = Cardinality(KeptWins)
            /\ {<<c.char_start, c.char_end, c.text>> : c \in {chunks[i] : i \in 1..Len(chunks)}}
                 = {<<WinStart(k), WinEnd(k), WinText(k)>> : k \in KeptWins}
            /\ (text = Rep("x", 1000) /\ chunk_size = 900 /\ overlap = 200) =>
                 /\ Len(chunks) = 2
                 /\ <<chunks[1].char_start, chunks[1].char_end>> = <<0, 900>>
                 /\ <<chunks[2].char_start, chunks[2].char_end>> = <<700, 1000>>

C6_Witness ==
    /\ Returned /\ text = Rep("x", 1000) /\ chunk_size = 900 /\ overlap = 200
    /\ Len(chunks) = 2 /\ chunks[2].char_start = 700 /\ chunks[2].text = Rep("x", 300)

\* C7: in the returned sequence the i-th element (0-based) carries index i,
\* also after skipped windows, and char_start and char_end never decrease.
C7_IndexAndMonotone ==
    (Called /\ chunk_size > 0 /\ overlap < chunk_size) =>
        /\ \A i \in 1..Len(chunks) : chunks[i].index = i - 1
        /\ \A i \in 1..(Len(chunks) - 1) :
              /\ chunks[i].char_start <= chunks[i + 1].char_start
              /\ chunks[i].char_end <= chunks[i + 1].char_end

C7_Witness ==
    /\ Returned /\ chunk_size > 0 /\ overlap < chunk_size
    /\ Len(chunks) >= 2
    /\ chunks[1].char_start > 0
    /\ chunks[2].index = 1

\* C9: a call with overlap >= chunk_size ends in a ConfigurationError: it
\* never runs the window loop and returns no chunks.
C9_ConfigurationError ==
    (overlap >= chunk_size /\ text # <<>>) =>
        /\ cpc # "loop"
        /\ outcome # "returned"

\* C11: for a finite content, chunk_size > 0 and 0 <= overlap < chunk_size,
\* chunk_text terminates: every iteration that stays in the loop moves the
\* window start up by exactly chunk_size - overlap (a positive amount), the
\* loop is left exactly at the first window whose end is the content length,
\* and every call that enters chunk_text returns.
C11_Terminates ==
    /\ [][(cpc = "loop" /\ ChunkPre /\ cpc' = "loop") =>
              /\ start' = start + (chunk_size - overlap)
              /\ start' > start
              /\ WindowEnd < Len(text)]_vars
    /\ [][(cpc = "loop" /\ ChunkPre /\ cpc' # "loop") =>
              /\ start < Len(text)
              /\ WindowEnd = Len(text)
              /\ \E k \in 0..Len(text) :
                    /\ start = WinStart(k)
                    /\ \A j \in 0..(k - 1) : WinEnd(j) < Len(text)]_vars
    /\ (cpc = "guard" /\ ChunkPre) ~> Returned

\* a call that took three windows, with a positive overlap, has returned
C11_Witness ==
    /\ Returned /\ ChunkPre /\ overlap > 0
    /\ start = 2 * (chunk_size - overlap)
    /\ WindowEnd = Len(text)
    /\ outcome = "returned"
        /\ chunks = <<>>

(***************************************************************************)
(* clean_text applied to a raw text and again to its own result            *)
(***************************************************************************)
MaxCleanToks == 5    \* a raw text is at most this many tokens

CleanTokens ==
    { <<"x">>, <<".">>, <<"\n">>, <<" ", "\n">>, <<"1", ".">>, <<"\t">>,
      <<"<nbsp>">>, <<"e", "<acute>">> }

RECURSIVE TokenSeqs(_)
TokenSeqs(n) ==
    IF n = 0 THEN {<<>>}
    ELSE LET shorter == TokenSeqs(n - 1)
         IN  shorter \cup {s \o t : s \in shorter, t \in CleanTokens}

CleanInit ==
    /\ raw \in TokenSeqs(MaxCleanToks)
    /\ once = <<>>
    /\ twice = <<>>
    /\ npc = "raw"
    /\ ChunkIdle
    /\ IngestIdle
    /\ ContextIdle

CleanOnce ==
    /\ npc = "raw"
    /\ once' = clean_text(raw)
    /\ npc' = "cleaned"
    /\ UNCHANGED <<raw, twice>>
    /\ UNCHANGED <<cvars, ivars, xvars>>

CleanTwice ==
    /\ npc = "cleaned"
    /\ twice' = clean_text(once)
    /\ npc' = "done"
    /\ UNCHANGED <<raw, once>>
    /\ UNCHANGED <<cvars, ivars, xvars>>

CleanNext == CleanOnce \/ CleanTwice

SpecClean == CleanInit /\ [][CleanNext]_vars

\* C8: text normalization is idempotent:
\* clean_text(clean_text(t)) = clean_text(t) for every raw text t.
C8_Idempotent == npc = "done" => twice = once

(***************************************************************************)
(* p1_ingest.py: extract_sections_grouped                                  *)
(***************************************************************************)
PAGE_SEPARATOR == <<"\n", "\n">>
HEADER_ZONE == 400
NoneValue == <<"<None>">>

VALID_REGULATIONS ==
    << <<"R", "e", "g", "u", "l", "a", "m", "e", "n", "t", "o", " ", "C", "a", "m", "p", "a",
          "n", "h", "a", " ", "C", "h", "a", "v", "e", "T", "O", "N">>,
       <<"R", "e", "g", "u", "l", "a", "m", "e", "n", "t", "o", " ", "P", "o", "n", "t", "o",
          " ", "T", "o", "n">>,
       <<"R", "e", "g", "u", "l", "a", "m", "e", "n", "t", "o", " ", "T", "o", "n", " ", "n",
          "a", " ", "M", "<a~>", "o">>,
       <<"R", "e", "g", "u", "l", "a", "m", "e", "n", "t", "o", " ", "P", "r", "o", "n", "t",
          "a", " ", "E", "n", "t", "r", "e", "g", "a">>,
       <<"R", "e", "g", "u", "l", "a", "m", "e", "n", "t", "o", " ", "I", "n", "d", "i", "q",
          "u", "e", " ", "T", "a", "p", "T", "o", "n">>,
       <<"R", "e", "g", "u", "l", "a", "m", "e", "n", "t", "o", " ", "R", "e", "n", "d", "a",
          " ", "T", "o", "n">>,
       <<"R", "e", "g", "u", "l", "a", "m", "e", "n", "t", "o", " ", "R", "e", "n", "d", "a",
          " ", "E", "x", "t", "r", "a">> >>

RegulamentoPrefix == <<"R", "e", "g", "u", "l", "a", "m", "e", "n", "t", "o", " ">>

RegulamentoWord == <<"R", "E", "G", "U", "L", "A", "M", "E", "N", "T", "O">>

\* s starts, at offset p, with the literal lit, compared as (?i) compares
MatchesAt(s, p, lit) ==
    /\ p + Len(lit) <= Len(s)
    /\ \A k \in 1..Len(lit) : UpperChar(s[p + k]) = UpperChar(lit[k])

\* name.split('Regulamento ')[-1]: what follows the last 'Regulamento '
NameSuffix(name) ==
    LET occ == {p \in 0..Len(name) :
                  /\ p + Len(RegulamentoPrefix) <= Len(name)
                  /\ SubSeq(name, p + 1, p + Len(RegulamentoPrefix)) = RegulamentoPrefix}
    IN  IF occ = {} THEN name
        ELSE LET last == CHOOSE p \in occ : \A q \in occ : q <= p
             IN  SubSeq(name, last + Len(RegulamentoPrefix) + 1, Len(name))

\* lines 128-141 and 178: (?i)REGULAMENTO[\s\n]*<suffix> searched in header
PatternSearch(header, name) ==
    \E p \in 0..Len(header) :
        /\ MatchesAt(header, p, RegulamentoWord)
        /\ MatchesAt(header, SkipSpaces(header, p + Len(RegulamentoWord)), NameSuffix(name))

\* line 175
HeaderOf(t) == Upper(PySlice(t, 0, HEADER_ZONE))

\* lines 176-180: the first name of VALID_REGULATIONS whose pattern matches
FoundDoc(t) ==
    LET hits == {n \in 1..Len(VALID_REGULATIONS) : PatternSearch(HeaderOf(t), VALID_REGULATIONS[n])}
    IN  IF hits = {} THEN NoneValue
        ELSE VALID_REGULATIONS[CHOOSE n \in hits : \A m \in hits : n <= m]

\* (?m)^\s* ends at offset q: q follows a line start and whitespace only
AfterLineStart(s, q) ==
    \E p \in 0..q :
        /\ p = 0 \/ s[p] = "\n"
        /\ \A j \in (p + 1)..q : IsSpace(s[j])

\* the offset at which that match of (?m)^\s* starts: the leftmost one
LineStartBefore(s, q) ==
    CHOOSE p \in 0..q :
        /\ p = 0 \/ s[p] = "\n"
        /\ \A j \in (p + 1)..q : IsSpace(s[j])
        /\ \A r \in 0..(p - 1) :
              ~((r = 0 \/ s[r] = "\n") /\ \A j \in (r + 1)..q : IsSpace(s[j]))

\* line 182: re.search(r'(?m)^\s*1\.(?!\d)', text)
has_section_restart(t) ==
    \E q \in 0..(Len(t) - 2) :
        /\ t[q + 1] = "1"
        /\ t[q + 2] = "."
        /\ ~(q + 2 < Len(t) /\ IsDigit(t[q + 3]))
        /\ AfterLineStart(t, q)

\* Faulty variant: a page is a boundary when it has the name or the restart
IsBoundary_Either(t) == FoundDoc(t) # NoneValue \/ has_section_restart(t)
\* line 185
IsBoundary(t) == FoundDoc(t) # NoneValue /\ has_section_restart(t)

\* line 208: re.finditer(r'(?m)^\s*(\d{1,2})\.(?!\d)', text_block)
\* the digits of a marker start at offset q
MarkerDigitsAt(s, q) ==
    LET r == SkipDigits(s, q)
    IN  /\ q < Len(s)
        /\ IsDigit(s[q + 1])
        /\ r - q \in {1, 2}
        /\ r < Len(s)
        /\ s[r + 1] = "."
        /\ ~(r + 1 < Len(s) /\ IsDigit(s[r + 2]))
        /\ AfterLineStart(s, q)

SectionMatches(s) ==
    LET qs == {q \in 0..Len(s) : MarkerDigitsAt(s, q)}
        nth(i) == CHOOSE q \in qs : Cardinality({x \in qs : x < q}) = i - 1
    IN  [i \in 1..Cardinality(qs) |->
            [start |-> LineStartBefore(s, nth(i)),
             group1 |-> SubSeq(s, nth(i) + 1, SkipDigits(s, nth(i))),
             end |-> SkipDigits(s, nth(i)) + 1]]

\* PAGE_SEPARATOR.join(ps)
RECURSIVE JoinPages(_)
JoinPages(ps) ==
    IF Len(ps) = 0 THEN <<>>
    ELSE IF Len(ps) = 1 THEN ps[1]
    ELSE ps[1] \o PAGE_SEPARATOR \o JoinPages(Tail(ps))

\* line 198
TextBlock(ps, start_page, next_page) == JoinPages(SubSeq(ps, start_page, next_page - 1))

\* lines 201-205: <<page, offset>> for every page of the span
RECURSIVE PageOffset(_, _, _)
PageOffset(ps, start_page, pi) ==
    IF pi <= start_page THEN 0
    ELSE PageOffset(ps, start_page, pi - 1) + Len(ps[pi - 1]) + Len(PAGE_SEPARATOR)

PageBoundaries(ps, start_page, next_page) ==
    [k \in 1..(next_page - start_page) |->
        <<start_page + k - 1, PageOffset(ps, start_page, start_page + k - 1)>>]

\* lines 228-230
FirstLine(s) ==
    IF \A i \in 1..Len(s) : s[i] # "\n" THEN s
    ELSE SubSeq(s, 1, (CHOOSE i \in 1..Len(s) :
                          s[i] = "\n" /\ \A j \in 1..(i - 1) : s[j] # "\n") - 1)

SectionTitle(block, start_pos) ==
    LET after == LStrip(PySlice(block, start_pos, Len(block)))
        next_line == Strip(FirstLine(after))
    IN  IF next_line # <<>> /\ ~IsDigit(next_line[1]) THEN next_line ELSE <<>>

\* lines 231-233
IsTitleSeparator(c) == IsSpace(c) \/ c \in {":", "<endash>", "-"}

SkipTitleSeparators(s, p) ==
    IF \A i \in (p + 1)..Len(s) : IsTitleSeparator(s[i]) THEN MaxOf(p, Len(s))
    ELSE (CHOOSE i \in (p + 1)..Len(s) :
            /\ ~IsTitleSeparator(s[i])
            /\ \A j \in (p + 1)..(i - 1) : IsTitleSeparator(s[j])) - 1

SectionText(block, start_pos, end_pos, title) ==
    LET section_text == Strip(PySlice(block, start_pos, end_pos))
    IN  IF title = <<>> THEN section_text
        ELSE IF Len(title) <= Len(section_text) /\ SubSeq(section_text, 1, Len(title)) = title
             THEN Strip(SubSeq(section_text,
                               SkipTitleSeparators(section_text, Len(title)) + 1,
                               Len(section_text)))
             ELSE Strip(section_text)

\* lines 236-243: the loop over page_boundaries; acc is <<page_start, page_end>>
RECURSIVE PageLoop(_, _, _, _, _)
PageLoop(b, j, start_pos, end_pos, acc) ==
    IF j > Len(b) - 1 THEN acc
    ELSE LET page_start == IF b[j][2] <= start_pos /\ start_pos < b[j + 1][2]
                           THEN b[j][1] ELSE acc[1]
         IN  IF b[j][2] <= end_pos /\ end_pos < b[j + 1][2]
             THEN <<page_start, b[j][1]>>
             ELSE PageLoop(b, j + 1, start_pos, end_pos, <<page_start, acc[2]>>)

\* Faulty variant: a section ends where the next marker ends
EndPos_NextMarkerEnd(ms, i, block) ==
    IF i + 1 <= Len(ms) THEN ms[i + 1].end ELSE Len(block)
\* line 225
EndPos(ms, i, block) ==
    IF i + 1 <= Len(ms) THEN ms[i + 1].start ELSE Len(block)

\* lines 222-252: the row of the i-th marker of a span
SectionRow(k, doc_name, b, block, ms, i, start_page, next_page) ==
    LET start_pos == ms[i].end
        end_pos == EndPos(ms, i, block)
        title == SectionTitle(block, start_pos)
        pr == PageLoop(b, 1, start_pos, end_pos, <<start_page, next_page - 1>>)
    IN  [doc_name |-> doc_name,
         section_number |-> ms[i].group1,
         section_title |-> title,
         page_start |-> pr[1],
         page_end |-> pr[2],
         content |-> SectionText(block, start_pos, end_pos, title),
         span |-> k, marker_start |-> ms[i].start,
         start_pos |-> start_pos, end_pos |-> end_pos]

\* lines 211-220: the row of a span without markers
WholeBlockRow(k, doc_name, block, start_page, next_page) ==
    [doc_name |-> doc_name,
     section_number |-> <<>>,
     section_title |-> <<>>,
     page_start |-> start_page,
     page_end |-> next_page - 1,
     content |-> Strip(block),
     span |-> k, marker_start |-> 0,
     start_pos |-> 0, end_pos |-> Len(block)]

\* lines 196-252: the rows of the k-th pair of zip(page_docs, page_docs[1:])
SpanRows(ps, docs, k) ==
    LET start_page == docs[k][1]
        doc_name == docs[k][2]
        next_page == docs[k + 1][1]
        block == TextBlock(ps, start_page, next_page)
        b == PageBoundaries(ps, start_page, next_page)
        ms == SectionMatches(block)
    IN  IF Len(ms) = 0
        THEN <<WholeBlockRow(k, doc_name, block, start_page, next_page)>>
        ELSE [i \in 1..Len(ms) |->
                SectionRow(k, doc_name, b, block, ms, i, start_page, next_page)]

(***************************************************************************)
(* The PDFs of the model: up to MaxPages pages, each one of PageTexts      *)
(***************************************************************************)
MaxPages == 3

PageDocTwoSections ==
    <<"R", "E", "G", "U", "L", "A", "M", "E", "N", "T", "O", " ", "P", "O", "N", "T", "O", " ",
        "T", "O", "N", "\n", "1", ".", " ", "O", "b", "j", "e", "t", "i", "v", "o", "\n", "O",
        " ", "p", "r", "o", "g", "r", "a", "m", "a", ".", "\n", "2", ".", " ", "R", "e", "g",
        "r", "a", "s", "\n", "V", "a", "l", "e", ".">>

PageDocSplitHeader ==
    <<"R", "e", "g", "u", "l", "a", "m", "e", "n", "t", "o", "\n", "R", "e", "n", "d", "a",
        " ", "T", "o", "n", "\n", "1", ".", " ", "O", "b", "j", "e", "t", "i", "v", "o", ":",
        " ", "p", "o", "n", "t", "o", "s">>

PageNameOnly ==
    <<"V", "e", "r", " ", "R", "e", "g", "u", "l", "a", "m", "e", "n", "t", "o", " ", "P", "o",
        "n", "t", "o", " ", "T", "o", "n", ".", "\n", "2", ".", " ", "P", "r", "a", "z", "o",
        "\n", "T", "e", "x", "t", "o", ".">>

PageRestartOnly ==
    <<"A", "n", "e", "x", "o", ".", "\n", "1", ".", " ", "T", "e", "r", "m", "o", "s", "\n",
        "T", "e", "x", "t", "o", ".">>

PagePlain ==
    <<"T", "e", "x", "t", "o", " ", "l", "i", "v", "r", "e", ".">>

PageSubNumbered ==
    <<"A", "n", "e", "x", "o", ":", "\n", "1", ".", "1", " ", "I", "t", "e", "m", ".", "\n",
        "\n", "1", "2", "3", ".", " ", "N", "o", "t", "a">>

PageEmpty ==
    <<>>

\* the name ends exactly at the end of the header zone / one character later
PageNameAtZoneEnd ==
    Rep("a", HEADER_ZONE - 22) \o <<" ">> \o SubSeq(PageDocTwoSections, 1, 33)
PageNameCutByZone ==
    Rep("a", HEADER_ZONE - 21) \o <<" ">> \o SubSeq(PageDocTwoSections, 1, 33)

\* the pages that are longer than the header zone, and the others
ZonePages == {PageNameAtZoneEnd, PageNameCutByZone}
PageTexts ==
    { PageDocTwoSections, PageDocSplitHeader, PageNameOnly, PageRestartOnly,
      PagePlain, PageSubNumbered, PageEmpty }

RECURSIVE PageSeqs(_)
PageSeqs(n) ==
    IF n = 0 THEN {<<>>}
    ELSE LET shorter == PageSeqs(n - 1)
         IN  shorter \cup {s \o <<t>> : s \in shorter, t \in PageTexts}

\* up to MaxPages pages of PageTexts, or a page of ZonePages and up to
\* MaxZoneTail pages of PageTexts after it
MaxZoneTail == 1
Pdfs == PageSeqs(MaxPages) \cup {<<z>> \o s : z \in ZonePages, s \in PageSeqs(MaxZoneTail)}

IngestInit ==
    /\ \/ pdf_found = TRUE /\ raw_pages \in Pdfs
       \/ pdf_found = FALSE /\ raw_pages = <<>>
    /\ pages = <<>>
    /\ pg = 1
    /\ page_docs = <<>>
    /\ span = 1
    /\ rows = <<>>
    /\ frame = <<>>
    /\ ipc = "open"
    /\ ChunkIdle
    /\ CleanIdle
    /\ ContextIdle

\* lines 168 and 258-259: the PDF is not there
OpenFails ==
    /\ ipc = "open"
    /\ ~pdf_found
    /\ ipc' = "FileNotFoundError"
    /\ UNCHANGED <<pdf_found, raw_pages, pages, pg, page_docs, span, rows, frame>>
    /\ UNCHANGED <<cvars, nvars, xvars>>

\* lines 165-173: read and clean every page
ReadPages ==
    /\ ipc = "open"
    /\ pdf_found
    /\ pages' = [i \in 1..Len(raw_pages) |-> clean_text(raw_pages[i])]
    /\ pg' = 1
    /\ page_docs' = <<>>
    /\ ipc' = "detect"
    /\ UNCHANGED <<pdf_found, raw_pages, span, rows, frame>>
    /\ UNCHANGED <<cvars, nvars, xvars>>

\* lines 174-186: one iteration of the loop over the pages
DetectPage ==
    /\ ipc = "detect"
    /\ pg <= Len(pages)
    /\ page_docs' = IF IsBoundary(pages[pg])
                    THEN Append(page_docs, <<pg, FoundDoc(pages[pg])>>)
                    ELSE page_docs
    /\ pg' = pg + 1
    /\ UNCHANGED <<pdf_found, raw_pages, pages, span, rows, frame, ipc>>
    /\ UNCHANGED <<cvars, nvars, xvars>>

\* lines 188-195: the default boundary and the terminal one
CloseBoundaries ==
    /\ ipc = "detect"
    /\ pg > Len(pages)
    /\ page_docs' = Append(IF page_docs = <<>> THEN <<<<1, NoneValue>>>> ELSE page_docs,
                           <<Len(pages) + 1, NoneValue>>)
    /\ span' = 1
    /\ rows' = <<>>
    /\ ipc' = "spans"
    /\ UNCHANGED <<pdf_found, raw_pages, pages, pg, frame>>
    /\ UNCHANGED <<cvars, nvars, xvars>>

\* lines 196-252: one iteration of the loop over the spans
SegmentSpan ==
    /\ ipc = "spans"
    /\ span <= Len(page_docs) - 1
    /\ rows' = rows \o SpanRows(pages, page_docs, span)
    /\ span' = span + 1
    /\ UNCHANGED <<pdf_found, raw_pages, pages, pg, page_docs, frame, ipc>>
    /\ UNCHANGED <<cvars, nvars, xvars>>

\* Faulty variant: the frame is returned without the final pass over the contents
BuildFrame_NoFinalPass ==
    /\ ipc = "spans"
    /\ span > Len(page_docs) - 1
    /\ frame' = rows
    /\ ipc' = "done"
    /\ UNCHANGED <<pdf_found, raw_pages, pages, pg, page_docs, span, rows>>
    /\ UNCHANGED <<cvars, nvars, xvars>>

\* lines 254-256
BuildFrame ==
    /\ ipc = "spans"
    /\ span > Len(page_docs) - 1
    /\ frame' = [i \in 1..Len(rows) |->
                    [rows[i] EXCEPT !.content = fix_double_newlines(rows[i].content)]]
    /\ ipc' = "done"
    /\ UNCHANGED <<pdf_found, raw_pages, pages, pg, page_docs, span, rows>>
    /\ UNCHANGED <<cvars, nvars, xvars>>

IngestNext ==
    OpenFails \/ ReadPages \/ DetectPage \/ CloseBoundaries \/ SegmentSpan \/ BuildFrame

SpecIngest == IngestInit /\ [][IngestNext]_vars

(***************************************************************************)
(* Properties of extract_sections_grouped                                  *)
(***************************************************************************)
NumPages == Len(pages)
Closed == ipc \in {"spans", "done"}
\* the DocumentSpans: the consecutive pairs of page_docs, half-open
NumSpans == Len(page_docs) - 1
SpanStart(k) == page_docs[k][1]
SpanNext(k) == page_docs[k + 1][1]
SpanBlock(k) == TextBlock(pages, SpanStart(k), SpanNext(k))
SpanMarkers(k) == SectionMatches(SpanBlock(k))
Segmented(k) == Closed /\ k \in 1..NumSpans /\ k < span
RowsOfSpan(k) == SelectSeq(rows, LAMBDA r : r.span = k)
FrameOfSpan(k) == SelectSeq(frame, LAMBDA r : r.span = k)
HasDoubleBreak(s) == \E i \in 1..(Len(s) - 1) : s[i] = "\n" /\ s[i + 1] = "\n"

\* C1: the DocumentSpans' page ranges are inside [1, N] and every page
\* 1..N belongs to exactly one span, whichever page the first detected
\* boundary is on.
C1_SpansPartitionPages ==
    Closed =>
        /\ \A k \in 1..NumSpans : 1 <= SpanStart(k) /\ SpanNext(k) <= NumPages + 1
        /\ \A p \in 1..NumPages :
              Cardinality({k \in 1..NumSpans : SpanStart(k) <= p /\ p < SpanNext(k)}) = 1

\* the two conditions of a boundary, as the claim words them
C2_NameInHeaderZone(t) ==
    \E n \in 1..Len(VALID_REGULATIONS) :
        LET suffix == SubSeq(VALID_REGULATIONS[n], Len(RegulamentoPrefix) + 1,
                             Len(VALID_REGULATIONS[n]))
            zone == MinOf(Len(t), HEADER_ZONE)
        IN  \E p \in 0..zone :
                /\ p + Len(RegulamentoWord) <= zone
                /\ \A k \in 1..Len(RegulamentoWord) :
                      UpperChar(t[p + k]) = RegulamentoWord[k]
                /\ \E g \in 0..zone :
                      /\ p + Len(RegulamentoWord) + g + Len(suffix) <= zone
                      /\ \A j \in 1..g : IsSpace(t[p + Len(RegulamentoWord) + j])
                      /\ \A k \in 1..Len(suffix) :
                            UpperChar(t[p + Len(RegulamentoWord) + g + k]) = UpperChar(suffix[k])

C2_RestartLine(t) ==
    \E p \in 0..Len(t) :
        /\ p = 0 \/ t[p] = "\n"
        /\ \E g \in 0..(Len(t) - p) :
              /\ p + g + 2 <= Len(t)
              /\ \A j \in 1..g : IsSpace(t[p + j])
              /\ t[p + g + 1] = "1"
              /\ t[p + g + 2] = "."
              /\ p + g + 3 <= Len(t) => ~IsDigit(t[p + g + 3])

C2_Both(i) == C2_NameInHeaderZone(pages[i]) /\ C2_RestartLine(pages[i])

\* C2: a page is recorded as a boundary iff its first 400 cleaned characters
\* match REGULAMENTO followed by a known suffix and its text has a line that
\* starts with "1." not followed by a digit; two consecutive pages that meet
\* both give two boundaries, hence two spans.
C2_BoundaryIffBoth ==
    /\ ipc = "detect" =>
          \A i \in 1..(pg - 1) :
              (\E k \in 1..Len(page_docs) : page_docs[k][1] = i) <=> C2_Both(i)
    /\ Closed =>
          \A i \in 1..(NumPages - 1) :
              (C2_Both(i) /\ C2_Both(i + 1)) =>
                  \E k \in 1..NumSpans : SpanStart(k) = i /\ SpanNext(k) = i + 1

C2_Witness ==
    /\ Closed
    /\ raw_pages = <<PageDocTwoSections, PageDocSplitHeader, PageNameOnly>>
    /\ page_docs = << <<1, VALID_REGULATIONS[2]>>, <<2, VALID_REGULATIONS[6]>>, <<4, NoneValue>> >>

\* the content spans of a span's rows, concatenated in order
RECURSIVE ContentSpans(_, _)
ContentSpans(block, rs) ==
    IF rs = <<>> THEN <<>>
    ELSE PySlice(block, rs[1].start_pos, rs[1].end_pos) \o ContentSpans(block, Tail(rs))

\* the same with each content span preceded by its marker's matched text
RECURSIVE MarkersAndSpans(_, _)
MarkersAndSpans(block, rs) ==
    IF rs = <<>> THEN <<>>
    ELSE PySlice(block, rs[1].marker_start, rs[1].start_pos)
         \o PySlice(block, rs[1].start_pos, rs[1].end_pos)
         \o MarkersAndSpans(block, Tail(rs))

\* optional whitespace, the section number of one or two digits, a dot
IsMarkerText(m, number) ==
    /\ Len(number) \in {1, 2}
    /\ \A i \in 1..Len(number) : IsDigit(number[i])
    /\ Len(m) >= Len(number) + 1
    /\ \A i \in 1..(Len(m) - Len(number) - 1) : IsSpace(m[i])
    /\ SubSeq(m, Len(m) - Len(number), Len(m) - 1) = number
    /\ m[Len(m)] = "."

\* C3 (as stated): a block with k >= 1 markers yields exactly k Sections
\* whose untrimmed content spans, concatenated in marker order, reconstruct
\* the block exactly.
C3_SpansReconstructBlock ==
    \A k \in 1..NumSpans :
        (Segmented(k) /\ Len(SpanMarkers(k)) >= 1) =>
            /\ Len(RowsOfSpan(k)) = Len(SpanMarkers(k))
            /\ ContentSpans(SpanBlock(k), RowsOfSpan(k)) = SpanBlock(k)

\* C3 (amended): a block with k >= 1 markers yields exactly k Sections, and
\* the text before the first marker followed, in marker order, by each
\* marker's matched text (optional whitespace, the section number, the dot)
\* and that Section's untrimmed content span reconstructs the block exactly.
C3_MarkersAndSpansReconstructBlock ==
    \A k \in 1..NumSpans :
        (Segmented(k) /\ Len(SpanMarkers(k)) >= 1) =>
            LET rs == RowsOfSpan(k)
                block == SpanBlock(k)
            IN  /\ Len(rs) = Len(SpanMarkers(k))
                /\ PySlice(block, 0, rs[1].marker_start) \o MarkersAndSpans(block, rs) = block
                /\ \A i \in 1..Len(rs) :
                      /\ rs[i].marker_start < rs[i].start_pos
                      /\ rs[i].start_pos <= rs[i].end_pos
                      /\ IsMarkerText(PySlice(block, rs[i].marker_start, rs[i].start_pos),
                                      rs[i].section_number)

C3_Witness ==
    \E k \in 1..NumSpans :
        /\ Segmented(k)
        /\ Len(RowsOfSpan(k)) = 3
        /\ RowsOfSpan(k)[1].marker_start > 0
        /\ RowsOfSpan(k)[2].end_pos > RowsOfSpan(k)[2].start_pos
        /\ SpanNext(k) - SpanStart(k) = 2

\* C4 (as stated): a span whose block has no marker yields exactly one
\* Section, with empty number and title, the page range of the whole span,
\* and final content equal to the trimmed joined block.
C4_WholeBlockIsTrimmedBlock ==
    ipc = "done" =>
        \A k \in 1..NumSpans :
            Len(SpanMarkers(k)) = 0 =>
                /\ Len(FrameOfSpan(k)) = 1
                /\ FrameOfSpan(k)[1].section_number = <<>>
                /\ FrameOfSpan(k)[1].section_title = <<>>
                /\ FrameOfSpan(k)[1].page_start = SpanStart(k)
                /\ FrameOfSpan(k)[1].page_end = SpanNext(k) - 1
                /\ FrameOfSpan(k)[1].content = Strip(SpanBlock(k))

\* C4 (amended): such a span yields exactly one Section, with empty number
\* and title and the page range of the whole span; its final content is the
\* result of the final line-break pass (fix_double_newlines) on the trimmed
\* joined block, so it holds no two consecutive line breaks and differs
\* from the trimmed block whenever that block holds any (as it does at the
\* page separator between two non-empty pages).
C4_WholeBlockIsFixedTrimmedBlock ==
    ipc = "done" =>
        \A k \in 1..NumSpans :
            Len(SpanMarkers(k)) = 0 =>
                /\ Len(FrameOfSpan(k)) = 1
                /\ FrameOfSpan(k)[1].section_number = <<>>
                /\ FrameOfSpan(k)[1].section_title = <<>>
                /\ FrameOfSpan(k)[1].page_start = SpanStart(k)
                /\ FrameOfSpan(k)[1].page_end = SpanNext(k) - 1
                /\ FrameOfSpan(k)[1].content = fix_double_newlines(Strip(SpanBlock(k)))
                /\ ~HasDoubleBreak(FrameOfSpan(k)[1].content)
                /\ HasDoubleBreak(Strip(SpanBlock(k))) =>
                      FrameOfSpan(k)[1].content # Strip(SpanBlock(k))

C4_Witness ==
    /\ ipc = "done"
    /\ NumSpans = 1
    /\ NumPages = 2
    /\ Len(SpanMarkers(1)) = 0
    /\ Len(frame) = 1
    /\ frame[1].page_end = 2
    /\ HasDoubleBreak(Strip(SpanBlock(1)))
    /\ frame[1].content # <<>>

\* the page of span k whose offset-map interval holds the offset; the last
\* page's interval extends to the end of the block
C10_PageOf(k, offset) ==
    CHOOSE p \in SpanStart(k)..(SpanNext(k) - 1) :
        /\ PageOffset(pages, SpanStart(k), p) <= offset
        /\ p = SpanNext(k) - 1 \/ offset < PageOffset(pages, SpanStart(k), p + 1)

\* C10: for every Section of a span with a marker, page_start is the page
\* whose offset-map interval holds the marker's end offset and page_end the
\* page whose interval holds the content's end offset, on every page of the
\* span, the last one of a multi-page span included.
C10_PagesFromOffsetMap ==
    \A k \in 1..NumSpans :
        (Segmented(k) /\ Len(SpanMarkers(k)) >= 1) =>
            \A i \in 1..Len(RowsOfSpan(k)) :
                /\ RowsOfSpan(k)[i].page_start = C10_PageOf(k, RowsOfSpan(k)[i].start_pos)
                /\ RowsOfSpan(k)[i].page_end = C10_PageOf(k, RowsOfSpan(k)[i].end_pos)

\* C12: every Section row, for any number of pages N >= 0 and any placement
\* of the boundaries, has span_start <= page_start <= page_end <= span_end - 1
\* where [span_start, span_end) is its DocumentSpan; the row of a span
\* without markers and the rows that keep the default pages are included.
C12_PagesWithinSpan ==
    \A k \in 1..NumSpans :
        Segmented(k) =>
            \A i \in 1..Len(RowsOfSpan(k)) :
                /\ SpanStart(k) <= RowsOfSpan(k)[i].page_start
                /\ RowsOfSpan(k)[i].page_start <= RowsOfSpan(k)[i].page_end
                /\ RowsOfSpan(k)[i].page_end <= SpanNext(k) - 1

(***************************************************************************)
(* p4_retriever.py: build_context_from_results                             *)
(***************************************************************************)
DEFAULT_CHAR_LIMIT == 3000
KEY_LENGTH == 120        \* line 115: key = text[:120]
MIN_TEXT_BUDGET == 80    \* line 131: max(80, remaining - 50)
HEADER_RESERVE == 50     \* line 131

\* a key the dictionary does not have
Missing == <<"<missing>">>

\* line 112: (r.get("text") or "").strip()
TextOf(r) == IF r.text \in {NoneValue, Missing} THEN <<>> ELSE Strip(r.text)

\* r.get(key, '?') inside an f-string: the default for a missing key, str()
\* of the value otherwise
Formatted(v) ==
    IF v = Missing THEN <<"?">>
    ELSE IF v = NoneValue THEN <<"N", "o", "n", "e">>
    ELSE v

DigitChars == <<"0", "1", "2", "3", "4", "5", "6", "7", "8", "9">>

RECURSIVE Digits(_)
Digits(n) ==
    IF n < 10 THEN <<DigitChars[n + 1]>>
    ELSE Digits(n \div 10) \o <<DigitChars[(n % 10) + 1]>>

\* f"{score:.3f}" of a score given in thousandths
FormatScore(m) ==
    LET a == IF m < 0 THEN 0 - m ELSE m
    IN  (IF m < 0 THEN <<"-">> ELSE <<>>)
        \o Digits(a \div 1000) \o <<".">>
        \o <<DigitChars[((a \div 100) % 10) + 1],
             DigitChars[((a \div 10) % 10) + 1],
             DigitChars[(a % 10) + 1]>>

\* lines 120-125
Header(r, meta) ==
    IF meta
    THEN <<"[", "F", "o", "n", "t", "e", ":", " ">> \o Formatted(r.doc_name)
         \o <<" ", "|", " ", "P", "<a'>", "g", "i", "n", "a", "s", ":", " ">> \o Formatted(r.page_range)
         \o <<" ", "|", " ", "T", "<i'>", "t", "u", "l", "o", ":", " ">> \o Formatted(r.section_title)
         \o <<" ", "|", " ", "s", "c", "o", "r", "e", ":">> \o FormatScore(r.score) \o <<"]", "\n">>
    ELSE <<>>

\* cut.rsplit('.', 1)[0]
BeforeLastDot(cut) ==
    LET d == CHOOSE i \in 1..Len(cut) :
                 cut[i] = "." /\ \A j \in (i + 1)..Len(cut) : cut[j] # "."
    IN  SubSeq(cut, 1, d - 1)

\* lines 131-138
Cut(t, remaining) ==
    LET max_for_this == MaxOf(MIN_TEXT_BUDGET, remaining - HEADER_RESERVE)
        cut == PySlice(t, 0, max_for_this)
    IN  IF Len(t) > max_for_this
        THEN IF \E i \in 1..Len(cut) : cut[i] = "."
             THEN Strip(BeforeLastDot(cut)) \o <<".">>
             ELSE cut
        ELSE t

Separator == <<"\n", "\n", "-", "-", "-", "\n", "\n">>

\* line 140
Part(r, t, remaining, meta) == Header(r, meta) \o Cut(t, remaining) \o Separator

\* "".join(parts)
RECURSIVE JoinParts(_)
JoinParts(ps) == IF ps = <<>> THEN <<>> ELSE Head(ps) \o JoinParts(Tail(ps))

\* Bounds of the inputs
MaxResults == 3

TextShort == Rep("x", 60)
TextSentences == <<"V", "a", "l", "e", ".">> \o Rep("a", 100) \o <<".", " ">> \o Rep("b", 100)
TextLong == Rep("x", 200)
\* the first 120 characters of TextLong once trimmed
TextSameKey == <<" ">> \o Rep("x", 120) \o <<"y", "y", "y", "\n">>

\* score is the value of "_score", in thousandths
MkResult(t, doc, pr, title, sc) ==
    [text |-> t, doc_name |-> doc, page_range |-> pr, section_title |-> title,
     score |-> sc]

ResultList ==
    << MkResult(TextShort, <<"R", "e", "g", "u", "l", "a", "m", "e", "n", "t", "o", " ", "P", "o", "n", "t", "o", " ", "T", "o", "n">>, <<"1", "-", "2">>, <<"O", "b", "j", "e", "t", "i", "v", "o">>, 873),
       MkResult(TextSentences, NoneValue, <<"3", "-", "3">>, <<>>, 1000),
       MkResult(TextLong, Missing, Missing, Missing, 0),
       MkResult(TextSameKey, Missing, <<"4", "-", "4">>, Missing, 0 - 42),
       MkResult(NoneValue, <<"R", "e", "g", "u", "l", "a", "m", "e", "n", "t", "o", " ", "P", "o", "n", "t", "o", " ", "T", "o", "n">>, <<"1", "-", "1">>, <<>>, 500) >>

RECURSIVE ResultSeqs(_)
ResultSeqs(n) ==
    IF n = 0 THEN {<<>>}
    ELSE LET shorter == ResultSeqs(n - 1)
         IN  shorter \cup {s \o <<ResultList[i]>> : s \in shorter, i \in 1..Len(ResultList)}

CharLimits == {0, 100, 300, DEFAULT_CHAR_LIMIT}

ContextInit ==
    /\ results \in ResultSeqs(MaxResults)
    /\ char_limit \in CharLimits
    /\ include_meta \in BOOLEAN
    /\ ri = 1
    /\ seen = {}
    /\ parts = <<>>
    /\ total = 0
    /\ context_text = <<>>
    /\ xpc = "for"
    /\ ChunkIdle
    /\ CleanIdle
    /\ IngestIdle

\* lines 111-142: one iteration of the loop over results
ContextResult ==
    /\ xpc = "for"
    /\ ri <= Len(results)
    /\ LET r == results[ri]
           t == TextOf(r)
           key == PySlice(t, 0, KEY_LENGTH)
           remaining == char_limit - total
           part == Part(r, t, remaining, include_meta)
       IN  IF t = <<>> \/ key \in seen
           THEN /\ ri' = ri + 1
                /\ UNCHANGED <<seen, parts, total, xpc>>
           ELSE /\ seen' = seen \cup {key}
                /\ IF remaining <= 0
                   THEN /\ xpc' = "break"
                        /\ UNCHANGED <<ri, parts, total>>
                   ELSE /\ parts' = Append(parts, part)
                        /\ total' = total + Len(part)
                        /\ ri' = ri + 1
                        /\ xpc' = xpc
    /\ UNCHANGED <<results, char_limit, include_meta, context_text>>
    /\ UNCHANGED <<cvars, nvars, ivars>>

\* lines 144-145: after the loop, by exhaustion or by break
ContextReturn ==
    /\ \/ xpc = "for" /\ ri > Len(results)
       \/ xpc = "break"
    /\ context_text' = Strip(JoinParts(parts))
    /\ xpc' = "done"
    /\ UNCHANGED <<results, char_limit, include_meta, ri, seen, parts, total>>
    /\ UNCHANGED <<cvars, nvars, ivars>>

ContextNext == ContextResult \/ ContextReturn

SpecContext == ContextInit /\ [][ContextNext]_vars

\* C13: char_limit is the maximum length of the context: for every list of
\* results and every char_limit >= 0 the returned string has at most
\* char_limit characters, the metadata headers and the '---' separators
\* counted.
C13_ContextWithinLimit ==
    (xpc = "done" /\ char_limit >= 0) => Len(context_text) <= char_limit

=============================================================================
